---- MODULE Spec2Model ----
(***************************************************************************)
(* Model of scripts/redfish_pxe_boot.py: one invocation of the command     *)
(* line tool that sets the one-time boot device or resets a server through *)
(* its management controller, trying the standard Redfish endpoint first   *)
(* and the Dell OEM variants after an HTTP 400.                            *)
(*                                                                         *)
(* URLs and header values are strings; a message is the sequence of the   *)
(* pieces of its f-string, to be read joined.                              *)
(* A step of the model is one HTTP request on the wire together with the   *)
(* code that runs up to the next request, the sleep, or the print. The     *)
(* opener is the one build_opener makes, so a call of opener.open can put  *)
(* more than one request on the wire.                                      *)
(* A request is on the wire once the connection object for its host is     *)
(* made and the request handed to it; a port that is a number is left to   *)
(* the answer of the environment, whatever its range. URLs are made of     *)
(* letters, digits and punctuation other than the percent sign, without    *)
(* white space.                                                            *)
(***************************************************************************)
EXTENDS Integers, Sequences, FiniteSets, TLC

\* an invocation of redfish_pxe_boot.py
VARIABLES argv, pc, cur, pending, tried, sent, slept, result, stdout, exit_code

\* a run of convert_maas_to_inventory
VARIABLES machines, mi, pxe_hosts, boot_interfaces, localhost, ipc

ivars == <<machines, mi, pxe_hosts, boot_interfaces, localhost, ipc>>

vars ==
  <<argv, pc, cur, pending, tried, sent, slept, result, stdout, exit_code, ivars>>

(***************************************************************************)
(* Bounds and input sets                                                   *)
(***************************************************************************)
\* longest argument vector tried (sys.argv, program name included)
MaxArgc == 6

\* most answers with a redirect status and a Location in one invocation
MaxRedirects == 2

Prog == "redfish_pxe_boot.py"
Addresses == {"10.0.0.5", "10.0.0.5:abc"}
Users == {"admin"}
Passwords == {"secret"}
ActionTokens == {"set_boot", "reset", "frobnicate"}

\* status codes a controller answers with
OkCodes == {200, 204}
HttpErrorCodes == {400, 401, 302, 308}
RedirectCodes == {301, 302, 307, 308}
TransportFailure == -1

\* the Location header of an answer: absent, or its value
NoLocation == <<>>
RelativeLocation == <<"/redfish/v1/Systems/1/">>
AbsoluteLocation == <<"https://bmc2.example/redfish/v1/Systems/1/">>
SchemelessLocation == <<"httpdocs/Systems/1">>
BadPortLocation == <<"https://10.0.0.5:abc/redfish/v1/Systems/1/">>
Locations == {RelativeLocation, AbsoluteLocation, SchemelessLocation, BadPortLocation}

\* the Location headers tried with status c: none or any for 308, one for 302,
\* and none or one for 401, a status that is no redirect
LocationsWith(c) ==
  CASE c = 308 -> Locations \cup {NoLocation}
    [] c = 302 -> {RelativeLocation}
    [] c = 401 -> {NoLocation, RelativeLocation}
    [] OTHER -> {NoLocation}

\* the reason phrase sent with a status line
ReasonPhrase(c) ==
  CASE c = 400 -> "Bad Request"
    [] c = 401 -> "Unauthorized"
    [] c = 302 -> "Found"
    [] c = 308 -> "Permanent Redirect"
    [] OTHER -> "Unknown"

\* What one request can be answered with: a response with a status of
\* success, a response with another status, or no response (URLError, or
\* another exception such as a timeout).
Answers ==
  [kind : {"ok"}, code : OkCodes, reason : {"OK"}, loc : {NoLocation}]
    \cup UNION {{[kind |-> "http", code |-> c, reason |-> ReasonPhrase(c), loc |-> l] :
                    l \in LocationsWith(c)} : c \in HttpErrorCodes}
    \cup [kind : {"url"}, code : {0}, reason : {"Connection refused"}, loc : {NoLocation}]
    \cup [kind : {"exc"}, code : {0}, reason : {"timed out"}, loc : {NoLocation}]

(***************************************************************************)
(* Strings                                                                 *)
(***************************************************************************)
\* s[i - 1 : i], the i-th character
Char(s, i) == SubSeq(s, i, i)

\* s.startswith(prefix)
startswith(s, prefix) == Len(s) >= Len(prefix) /\ SubSeq(s, 1, Len(prefix)) = prefix

\* the positions of character c in s
Positions(s, c) == {i \in 1..Len(s) : Char(s, i) = c}

\* s.find(c, from - 1) + 1: the first position of c at or after from, 0 if none
find(s, c, from) ==
  LET first(hits) == IF hits = {} THEN 0 ELSE CHOOSE i \in hits : \A j \in hits : i <= j
  IN first({i \in Positions(s, c) : i >= from})

\* s.rfind(c) + 1: the last position of c in s, 0 if none
rfind(s, c) ==
  LET last(hits) == IF hits = {} THEN 0 ELSE CHOOSE i \in hits : \A j \in hits : i >= j
  IN last(Positions(s, c))

\* s.split(c)
RECURSIVE split(_, _)
split(s, c) ==
  LET cut(i) == IF i = 0 THEN <<s>>
                ELSE <<SubSeq(s, 1, i - 1)>> \o split(SubSeq(s, i + 1, Len(s)), c)
  IN cut(find(s, c, 1))

\* c.join(parts)
RECURSIVE join(_, _)
join(parts, c) ==
  IF parts = <<>> THEN ""
  ELSE IF Len(parts) = 1 THEN parts[1]
  ELSE parts[1] \o c \o join(Tail(parts), c)

Digit(d) ==
  CASE d = 0 -> "0" [] d = 1 -> "1" [] d = 2 -> "2" [] d = 3 -> "3" [] d = 4 -> "4"
    [] d = 5 -> "5" [] d = 6 -> "6" [] d = 7 -> "7" [] d = 8 -> "8" [] OTHER -> "9"

\* str(code)
RECURSIVE CodeStr(_)
CodeStr(c) ==
  IF c < 0 THEN "-" \o CodeStr(-c)
  ELSE IF c < 10 THEN Digit(c)
  ELSE CodeStr(c \div 10) \o Digit(c % 10)

Lowercase == <<"a", "b", "c", "d", "e", "f", "g", "h", "i", "j", "k", "l", "m",
               "n", "o", "p", "q", "r", "s", "t", "u", "v", "w", "x", "y", "z">>
Uppercase == <<"A", "B", "C", "D", "E", "F", "G", "H", "I", "J", "K", "L", "M",
               "N", "O", "P", "Q", "R", "S", "T", "U", "V", "W", "X", "Y", "Z">>
Letters == {Lowercase[i] : i \in 1..26} \cup {Uppercase[i] : i \in 1..26}
Digits == {Digit(d) : d \in 0..9}

\* str.lower() on one character (ASCII)
LowerChar(c) ==
  IF \E i \in 1..26 : Uppercase[i] = c
    THEN Lowercase[CHOOSE i \in 1..26 : Uppercase[i] = c]
  ELSE c

\* str.lower() on a string
RECURSIVE lower_str(_)
lower_str(s) ==
  IF s = "" THEN "" ELSE LowerChar(Char(s, 1)) \o lower_str(SubSeq(s, 2, Len(s)))

(***************************************************************************)
(* urllib: what Request() and the opener of build_opener do with a URL and *)
(* with a redirect answer. URLs and Locations are made of letters, digits  *)
(* and the characters . - _ : / (no query, fragment, parameters, spaces or *)
(* brackets), with a scheme other than ftp, file and data.                 *)
(***************************************************************************)
\* no body (data=None)
NoData == <<>>

\* no exception
NoError == [kind |-> "none", code |-> 0, reason |-> "", loc |-> NoLocation]

\* urllib.parse._splittype: the scheme before the first ':', "" for None
splittype(url) ==
  LET scheme(i, j) == IF i > 1 /\ (j = 0 \/ j > i) THEN lower_str(SubSeq(url, 1, i - 1))
                      ELSE ""
  IN scheme(find(url, ":", 1), find(url, "/", 1))

\* urllib.parse._splithost on what follows the scheme: the host, "" for None
splithost(url) ==
  LET host(rest, e) == IF e = 0 THEN SubSeq(rest, 3, Len(rest)) ELSE SubSeq(rest, 3, e - 1)
      hostof(rest) == IF startswith(rest, "//") THEN host(rest, find(rest, "/", 3)) ELSE ""
      after(i) == hostof(SubSeq(url, i + 1, Len(url)))
  IN after(find(url, ":", 1))

\* s.strip() for the white space that is the space character
RECURSIVE strip(_)
strip(s) ==
  IF s = "" THEN s
  ELSE IF Char(s, 1) = " " THEN strip(Tail(s))
  ELSE IF Char(s, Len(s)) = " " THEN strip(SubSeq(s, 1, Len(s) - 1))
  ELSE s

\* whether int(s) takes the text s: white space around an optional sign and
\* digits, with single underscores between digits
IsInt(s) ==
  LET digits(t) ==
        /\ t # ""
        /\ \A i \in 1..Len(t) : Char(t, i) \in Digits \cup {"_"}
        /\ Char(t, 1) \in Digits /\ Char(t, Len(t)) \in Digits
        /\ \A i \in 1..(Len(t) - 1) : ~(Char(t, i) = "_" /\ Char(t, i + 1) = "_")
      signed(t) == IF t # "" /\ Char(t, 1) \in {"+", "-"} THEN digits(Tail(t)) ELSE digits(t)
  IN signed(strip(s))

\* HTTPConnection._get_hostport(host): the text after the last colon of host
\* when it is there, is not empty and is no number; "" when the port is fine
bad_port(host) ==
  LET port(i) == IF i = 0 THEN "" ELSE SubSeq(host, i + 1, Len(host))
      bad(p) == IF p = "" \/ IsInt(p) THEN "" ELSE p
  IN bad(port(rfind(host, ":")))

\* what stops a request for url before it is sent: the ValueError of
\* Request(), the URLError of the opener for a URL it cannot open, or the
\* InvalidURL of the connection for a port that is no number
request_error(url) ==
  LET check(type, host) ==
        IF type = ""
          THEN [kind |-> "exc", code |-> 0,
                reason |-> "unknown url type: '" \o url \o "'", loc |-> NoLocation]
        ELSE IF type \notin {"http", "https"}
          THEN [kind |-> "url", code |-> 0, reason |-> "unknown url type: " \o type,
                loc |-> NoLocation]
        ELSE IF host = ""
          THEN [kind |-> "url", code |-> 0, reason |-> "no host given", loc |-> NoLocation]
        ELSE IF bad_port(host) # ""
          THEN [kind |-> "exc", code |-> 0,
                reason |-> "nonnumeric port: '" \o bad_port(host) \o "'", loc |-> NoLocation]
        ELSE NoError
  IN check(splittype(url), splithost(url))

scheme_chars == Letters \cup Digits \cup {"+", "-", "."}

\* urllib.parse.urlsplit(url, scheme): scheme, netloc and path
urlsplit(url, scheme) ==
  LET parts(sch, rest, e) ==
        IF startswith(rest, "//")
          THEN [scheme |-> sch,
                netloc |-> IF e = 0 THEN SubSeq(rest, 3, Len(rest))
                           ELSE SubSeq(rest, 3, e - 1),
                path |-> IF e = 0 THEN "" ELSE SubSeq(rest, e, Len(rest))]
        ELSE [scheme |-> sch, netloc |-> "", path |-> rest]
      netloc_of(sch, rest) == parts(sch, rest, find(rest, "/", 3))
      scheme_of(i, has) ==
        netloc_of(IF has THEN lower_str(SubSeq(url, 1, i - 1)) ELSE scheme,
                  IF has THEN SubSeq(url, i + 1, Len(url)) ELSE url)
      colon_at(i) ==
        scheme_of(i, /\ i > 1
                     /\ Char(url, 1) \in Letters
                     /\ \A k \in 1..(i - 1) : Char(url, k) \in scheme_chars)
  IN colon_at(find(url, ":", 1))

\* urllib.parse.urlunsplit, for schemes that use a netloc
urlunsplit(scheme, netloc, path) ==
  LET with_scheme(url) == IF scheme # "" THEN scheme \o ":" \o url ELSE url
      with_netloc(slashed) ==
        with_scheme(IF netloc # "" \/ (scheme # "" /\ ~startswith(path, "//"))
                      THEN "//" \o netloc \o slashed
                    ELSE path)
  IN with_netloc(IF path # "" /\ ~startswith(path, "/") THEN "/" \o path ELSE path)

\* the loop of urljoin over the segments: '..' drops one, '.' is skipped
RECURSIVE resolve(_, _)
resolve(segments, resolved_path) ==
  IF segments = <<>> THEN resolved_path
  ELSE IF Head(segments) = ".."
    THEN resolve(Tail(segments),
                 IF resolved_path = <<>> THEN <<>>
                 ELSE SubSeq(resolved_path, 1, Len(resolved_path) - 1))
  ELSE IF Head(segments) = "." THEN resolve(Tail(segments), resolved_path)
  ELSE resolve(Tail(segments), Append(resolved_path, Head(segments)))

\* segments[1:-1] = filter(None, segments[1:-1])
drop_empty(segments) ==
  IF Len(segments) <= 2 THEN segments
  ELSE <<segments[1]>>
         \o SelectSeq(SubSeq(segments, 2, Len(segments) - 1), LAMBDA x : x # "")
         \o <<segments[Len(segments)]>>

\* urllib.parse.urljoin(base, url) for an http or https base
urljoin(base, url) ==
  LET or_root(path) == IF path = "" THEN "/" ELSE path
      ended(segments, resolved) ==
        IF segments[Len(segments)] \in {".", ".."} THEN Append(resolved, "") ELSE resolved
      joined(b, u, segments) ==
        urlunsplit(u.scheme, b.netloc,
                   or_root(join(ended(segments, resolve(segments, <<>>)), "/")))
      base_parts(parts) ==
        IF parts[Len(parts)] # "" THEN SubSeq(parts, 1, Len(parts) - 1) ELSE parts
      merged(b, u) ==
        joined(b, u, IF startswith(u.path, "/") THEN split(u.path, "/")
                     ELSE drop_empty(base_parts(split(b.path, "/")) \o split(u.path, "/")))
      against(b, u) ==
        IF url = "" THEN base
        ELSE IF u.scheme # b.scheme THEN url
        ELSE IF u.netloc # "" THEN urlunsplit(u.scheme, u.netloc, u.path)
        ELSE IF u.path = "" THEN urlunsplit(u.scheme, b.netloc, b.path)
        ELSE merged(b, u)
      from(b) == against(b, urlsplit(url, b.scheme))
  IN from(urlsplit(base, ""))

\* the statuses HTTPRedirectHandler has a handler for
HandledRedirects == {301, 302, 303, 307, 308}

\* HTTPRedirectHandler.redirect_request: the methods and statuses followed
Followed(method, code) ==
  \/ code \in {301, 302, 303, 307, 308} /\ method \in {"GET", "HEAD"}
  \/ code \in {301, 302, 303} /\ method = "POST"

\* HTTPRedirectHandler.http_error_302 for the answer a to request req: the
\* HTTPError raised, or the URL of the GET that follows the redirect
http_error_302(req, a) ==
  LET decide(newurl, urlparts, fixed) ==
        IF urlparts.scheme \notin {"http", "https", "ftp", ""}
          THEN [op |-> "raise",
                e |-> [a EXCEPT !.reason = a.reason \o " - Redirection to url '" \o newurl
                                             \o "' is not allowed"]]
        ELSE IF ~Followed(req.method, a.code) THEN [op |-> "raise", e |-> a]
        ELSE [op |-> "follow", url |-> urljoin(req.url, fixed)]
      fix(newurl, urlparts) ==
        decide(newurl, urlparts,
               urlunsplit(urlparts.scheme, urlparts.netloc,
                          IF urlparts.path = "" /\ urlparts.netloc # "" THEN "/"
                          ELSE urlparts.path))
  IN fix(a.loc[1], urlsplit(a.loc[1], ""))

(***************************************************************************)
(* make_request                                                            *)
(***************************************************************************)
\* f"Basic {base64(username:password)}"
auth_header(username, password) ==
  [scheme |-> "Basic", b64 |-> <<username, ":", password>>]

\* '/'.join(url.split('/')[:3]): the URL up to its third '/'
base_url(url) ==
  LET upto(third) == IF third = {} THEN url
                     ELSE SubSeq(url, 1, (CHOOSE i \in third : TRUE) - 1)
      cut(slashes) == upto({i \in slashes : Cardinality({j \in slashes : j < i}) = 2})
  IN cut(Positions(url, "/"))

\* Request(url, data=data, headers=headers, method=method)
Request(url, username, password, method, data) ==
  [method |-> method, url |-> url, data |-> data,
   Authorization |-> auth_header(username, password)]

\* redirect_url: the Location when it starts with 'http', else base_url + Location
redirect_url(url, loc) ==
  IF startswith(loc, "http") THEN loc ELSE base_url(url) \o loc

\* the HTTPError branch that replays the request
NeedsReplay(a) ==
  a.kind = "http" /\ a.code \in RedirectCodes /\ a.loc # NoLocation

\* str(exception)
StrOfError(a) ==
  CASE a.kind = "http" -> <<"HTTP Error ", CodeStr(a.code), ": ", a.reason>>
    [] a.kind = "url" -> <<"<urlopen error ", a.reason, ">">>
    [] OTHER -> <<a.reason>>

\* what make_request returns when the call of opener.open at line 53 ends
\* with a (a response or an exception)
make_request_first(a) ==
  CASE a.kind = "ok" ->
         [success |-> TRUE, code |-> a.code, msg |-> <<"Success">>]
    [] a.kind = "http" ->
         [success |-> FALSE, code |-> a.code, msg |-> <<"HTTP Error: ", a.reason>>]
    [] a.kind = "url" ->
         [success |-> FALSE, code |-> TransportFailure,
          msg |-> <<"URL Error: ", a.reason>>]
    [] OTHER ->
         [success |-> FALSE, code |-> TransportFailure, msg |-> <<"Error: ", a.reason>>]

\* what make_request returns after the replay of a redirected request; e is
\* the HTTPError of the first call, a what the replay ended with (a response,
\* or the exception of Request() or of opener.open)
make_request_replay(e, a) ==
  IF a.kind = "ok"
    THEN [success |-> TRUE, code |-> a.code,
          msg |-> <<"Success (after redirect to ">> \o e.loc \o <<")">>]
    ELSE [success |-> FALSE, code |-> e.code,
          msg |-> <<"Redirect to ">> \o e.loc \o <<" failed: ">> \o StrOfError(a)]

\* HTTPRedirectHandler.redirect_request: the request that follows a redirect,
\* a GET without body that keeps the Authorization header
redirect_request(req, newurl) ==
  [method |-> "GET", url |-> newurl, data |-> NoData, Authorization |-> req.Authorization]

\* opener.open after the answer a to its request req: the call returns the
\* response, raises, or sends the request that follows the redirect (the
\* limits of 4 visits of one URL and 10 redirections are beyond MaxRedirects)
opener_open(req, a) ==
  LET follow(url, err) ==
        IF err # NoError THEN [op |-> "raise", e |-> err]
        ELSE [op |-> "send", req |-> redirect_request(req, url)]
      handled(h) == IF h.op = "raise" THEN h ELSE follow(h.url, request_error(h.url))
  IN IF a.kind = "ok" THEN [op |-> "return"]
     ELSE IF a.kind = "http" /\ a.code \in HandledRedirects /\ a.loc # NoLocation
       THEN handled(http_error_302(req, a))
     ELSE [op |-> "raise", e |-> a]

\* make_request after the answer a to request req, sent by its call number
\* `call` of opener.open (1: line 53, 2: the replay at line 66, with e the
\* HTTPError caught at line 55); att is the attempt's url, method and data.
\* It sends a further request, or returns, `calls` being the calls of
\* opener.open it has made: a replay that Request() refuses at line 65 makes
\* no second call, one that the opener refuses before sending does.
make_request_step(att, username, password, call, e, req, a) ==
  LET replay(err, url, url_err) ==
        IF url_err # NoError
          THEN [op |-> "return", r |-> make_request_replay(err, url_err),
                calls |-> IF splittype(url) = "" THEN 1 ELSE 2]
        ELSE [op |-> "send", call |-> 2, e |-> err,
              req |-> Request(url, username, password, att.method, att.data)]
      redirected(err, url) == replay(err, url, request_error(url))
      after(o) ==
        IF o.op = "send" THEN [op |-> "send", call |-> call, e |-> e, req |-> o.req]
        ELSE IF call = 2
          THEN [op |-> "return", calls |-> 2,
                r |-> make_request_replay(e, IF o.op = "return" THEN a ELSE o.e)]
        ELSE IF o.op = "return"
          THEN [op |-> "return", calls |-> 1, r |-> make_request_first(a)]
        ELSE IF NeedsReplay(o.e) THEN redirected(o.e, redirect_url(att.url, o.e.loc[1]))
        ELSE [op |-> "return", calls |-> 1, r |-> make_request_first(o.e)]
  IN after(opener_open(req, a))

(***************************************************************************)
(* The attempts of the two cascades                                        *)
(***************************************************************************)
StandardSystem == "/redfish/v1/Systems/1"
OemSystem == "/redfish/v1/Systems/System.Embedded.1"
ResetAction == "/Actions/ComputerSystem.Reset"

boot_device == "Pxe"
reset_type == "ForceRestart"

BootData == [Boot |-> [BootSourceOverrideEnabled |-> "Once",
                       BootSourceOverrideTarget |-> boot_device]]
ResetData(type) == [ResetType |-> type]

\* the request of attempt `name` of set_boot_device
SetBootAttempt(name, oob_address) ==
  IF name = "std"
    THEN [method |-> "PATCH", url |-> "https://" \o oob_address \o StandardSystem,
          data |-> BootData]
    ELSE [method |-> "PATCH", url |-> "https://" \o oob_address \o OemSystem,
          data |-> BootData]

\* the request of attempt `name` of reset_server
ResetAttempt(name, oob_address) ==
  CASE name = "std" ->
         [method |-> "POST",
          url |-> "https://" \o oob_address \o StandardSystem \o ResetAction,
          data |-> ResetData(reset_type)]
    [] name = "oem" ->
         [method |-> "POST", url |-> "https://" \o oob_address \o OemSystem \o ResetAction,
          data |-> ResetData(reset_type)]
    [] name = "off" ->
         [method |-> "POST", url |-> "https://" \o oob_address \o OemSystem \o ResetAction,
          data |-> ResetData("ForceOff")]
    [] OTHER ->
         [method |-> "POST", url |-> "https://" \o oob_address \o OemSystem \o ResetAction,
          data |-> ResetData("On")]

AttemptOf(action, name, oob_address) ==
  IF action = "set_boot" THEN SetBootAttempt(name, oob_address)
  ELSE ResetAttempt(name, oob_address)

\* the outcome recorded for attempt `name` (the locals success_x, code_x, msg_x)
Local(t, name) == t[CHOOSE i \in 1..Len(t) : t[i].name = name]

Return(success, code, msg) ==
  [op |-> "return", success |-> success, code |-> code, msg |-> msg]
Goto(name) == [op |-> "request", name |-> name]
SleepThen(name) == [op |-> "sleep", name |-> name]

\* variant of set_boot_after_std: the OEM endpoint is tried after any failure
set_boot_after_std_AnyFailure(t) ==
  LET std == Local(t, "std") IN
  IF std.success THEN Return(TRUE, std.code, <<"Boot device set successfully">>)
  ELSE Goto("oem")

\* set_boot_device after the standard PATCH has returned; t holds the
\* outcomes so far, in order
set_boot_after_std(t) ==
  LET std == Local(t, "std") IN
  IF std.success THEN Return(TRUE, std.code, <<"Boot device set successfully">>)
  ELSE IF std.code = 400 THEN Goto("oem")
  ELSE Return(FALSE, std.code, std.msg)

\* variant of set_boot_after_oem: the standard attempt's code is returned
set_boot_after_oem_StdCode(t) ==
  LET std == Local(t, "std")
      oem == Local(t, "oem") IN
  IF oem.success
    THEN Return(TRUE, std.code, <<"Boot device set successfully (Dell OEM)">>)
  ELSE Return(FALSE, oem.code,
              <<"Standard and OEM methods failed: ">> \o std.msg \o <<" / ">> \o oem.msg)

\* set_boot_device after the OEM PATCH has returned
set_boot_after_oem(t) ==
  LET std == Local(t, "std")
      oem == Local(t, "oem") IN
  IF oem.success
    THEN Return(TRUE, oem.code, <<"Boot device set successfully (Dell OEM)">>)
  ELSE Return(FALSE, oem.code,
              <<"Standard and OEM methods failed: ">> \o std.msg \o <<" / ">> \o oem.msg)

set_boot_device(name, t) ==
  IF name = "std" THEN set_boot_after_std(t) ELSE set_boot_after_oem(t)

\* reset_server after the standard POST has returned
reset_after_std(t) ==
  LET std == Local(t, "std") IN
  IF std.success THEN Return(TRUE, std.code, <<"Server reset triggered">>)
  ELSE IF std.code = 400 THEN Goto("oem")
  ELSE Return(FALSE, std.code, std.msg)

\* variant of reset_after_oem: the early return on success is missing
reset_after_oem_NoReturn(t) == Goto("on")

\* reset_server after the OEM POST with the requested type has returned
reset_after_oem(t) ==
  LET oem == Local(t, "oem") IN
  IF oem.success THEN Return(TRUE, oem.code, <<"Server reset triggered (Dell OEM)">>)
  ELSE Goto("on")

\* variant of reset_after_on: ForceOff is skipped
reset_after_on_SkipOff(t) ==
  LET on == Local(t, "on") IN
  IF on.success THEN Return(TRUE, on.code, <<"Server powered on (Dell OEM)">>)
  ELSE Goto("on2")

\* reset_server after the OEM POST "On" has returned
reset_after_on(t) ==
  LET on == Local(t, "on") IN
  IF on.success THEN Return(TRUE, on.code, <<"Server powered on (Dell OEM)">>)
  ELSE Goto("off")

\* variant of reset_after_off: "On" follows ForceOff without the wait
reset_after_off_NoSleep(t) ==
  LET std == Local(t, "std")
      oem == Local(t, "oem")
      on == Local(t, "on")
      off == Local(t, "off") IN
  IF off.success THEN Goto("on2")
  ELSE Return(FALSE, oem.code,
              <<"All Dell reset methods failed: std=">> \o std.msg \o <<", oem=">>
                \o oem.msg \o <<", on=">> \o on.msg \o <<", off=">> \o off.msg)

AllFailedText == "All Dell reset methods failed: std="

\* reset_server after the OEM POST "ForceOff" has returned
reset_after_off(t) ==
  LET std == Local(t, "std")
      oem == Local(t, "oem")
      on == Local(t, "on")
      off == Local(t, "off") IN
  IF off.success THEN SleepThen("on2")
  ELSE Return(FALSE, oem.code,
              <<AllFailedText>> \o std.msg \o <<", oem=">> \o oem.msg
                \o <<", on=">> \o on.msg \o <<", off=">> \o off.msg)

\* variant of reset_after_on2: a failed power-on is returned as a success
reset_after_on2_PartialSuccess(t) ==
  LET on2 == Local(t, "on2") IN
  IF on2.success
    THEN Return(TRUE, on2.code, <<"Server reset triggered (Dell OEM ForceOff+On)">>)
  ELSE Return(TRUE, on2.code,
              <<"Server powered off successfully but failed to power back on: ">>
                \o on2.msg)

\* variant of reset_after_on2: a failed power-on is returned like any failure
reset_after_on2_PlainFailure(t) ==
  LET on2 == Local(t, "on2") IN
  IF on2.success
    THEN Return(TRUE, on2.code, <<"Server reset triggered (Dell OEM ForceOff+On)">>)
  ELSE Return(FALSE, on2.code, on2.msg)

PartialText == "Server powered off successfully but failed to power back on: "

\* reset_server after the second OEM POST "On" has returned
reset_after_on2(t) ==
  LET on2 == Local(t, "on2") IN
  IF on2.success
    THEN Return(TRUE, on2.code, <<"Server reset triggered (Dell OEM ForceOff+On)">>)
  ELSE Return(FALSE, on2.code, <<PartialText>> \o on2.msg)

reset_server(name, t) ==
  CASE name = "std" -> reset_after_std(t)
    [] name = "oem" -> reset_after_oem(t)
    [] name = "on" -> reset_after_on(t)
    [] name = "off" -> reset_after_off(t)
    [] OTHER -> reset_after_on2(t)

Cascade(action, name, t) ==
  IF action = "set_boot" THEN set_boot_device(name, t) ELSE reset_server(name, t)

\* time.sleep(5)
SettleSeconds == 5

(***************************************************************************)
(* main                                                                    *)
(***************************************************************************)
NoResult == [success |-> FALSE, code |-> 0, msg |-> <<>>]
\* no request of the attempt has been sent yet
NoPending ==
  [call |-> 0, e |-> NoError, req |-> NoData, n |-> 0,
   first |-> [kind |-> "none", code |-> 0, loc |-> NoLocation], redirects |-> 0]

UsageRecord ==
  [failed |-> TRUE,
   msg |-> <<"Usage: redfish_pxe_boot.py <oob_address> <username> <password> <action>">>]

\* variant of ResultRecord: changed is reported whatever the outcome
ResultRecord_AlwaysChanged(r) ==
  [failed |-> ~r.success, changed |-> TRUE, status_code |-> r.code, msg |-> r.msg]

ResultRecord(r) ==
  [failed |-> ~r.success, changed |-> r.success, status_code |-> r.code, msg |-> r.msg]

ExitStatus(success) == IF success THEN 0 ELSE 1

ArgvOf(n, addr, user, pw, act) ==
  [i \in 1..n |-> CASE i = 1 -> Prog
                    [] i = 2 -> addr
                    [] i = 3 -> user
                    [] i = 4 -> pw
                    [] i = 5 -> act
                    [] OTHER -> "extra"]

\* no inventory is being converted
InventoryIdle ==
  /\ machines = <<>>
  /\ mi = 1
  /\ pxe_hosts = <<>>
  /\ boot_interfaces = <<>>
  /\ localhost = <<>>
  /\ ipc = "idle"

Init ==
  /\ InventoryIdle
  /\ \E n \in 1..MaxArgc, addr \in Addresses, user \in Users, pw \in Passwords,
        act \in ActionTokens : argv = ArgvOf(n, addr, user, pw, act)
  /\ pc = "main"
  /\ cur = "none"
  /\ pending = NoPending
  /\ tried = <<>>
  /\ sent = <<>>
  /\ slept = 0
  /\ result = NoResult
  /\ stdout = <<>>
  /\ exit_code = -1

\* len(sys.argv) != 5: print the usage record and exit 1
Usage ==
  /\ pc = "main"
  /\ Len(argv) # 5
  /\ stdout' = Append(stdout, UsageRecord)
  /\ exit_code' = 1
  /\ pc' = "exit"
  /\ UNCHANGED <<argv, cur, pending, tried, sent, slept, result>>
  /\ UNCHANGED ivars

\* variant of Dispatch: any token other than set_boot is taken as reset
Dispatch_ElseReset ==
  /\ pc = "main"
  /\ Len(argv) = 5
  /\ cur' = "std"
  /\ pc' = "request"
  /\ UNCHANGED <<argv, pending, tried, sent, slept, result, stdout, exit_code>>
  /\ UNCHANGED ivars

\* variant of Dispatch: only too few arguments are refused
Dispatch_AtLeastFive ==
  /\ pc = "main"
  /\ Len(argv) >= 5
  /\ argv[5] \in {"set_boot", "reset"}
  /\ cur' = "std"
  /\ pc' = "request"
  /\ UNCHANGED <<argv, pending, tried, sent, slept, result, stdout, exit_code>>
  /\ UNCHANGED ivars

\* action == "set_boot" or action == "reset": enter the cascade
Dispatch ==
  /\ pc = "main"
  /\ Len(argv) = 5
  /\ argv[5] \in {"set_boot", "reset"}
  /\ cur' = "std"
  /\ pc' = "request"
  /\ UNCHANGED <<argv, pending, tried, sent, slept, result, stdout, exit_code>>
  /\ UNCHANGED ivars

\* any other action token
UnknownAction ==
  /\ pc = "main"
  /\ Len(argv) = 5
  /\ argv[5] \notin {"set_boot", "reset"}
  /\ result' = [success |-> FALSE, code |-> -1, msg |-> <<"Unknown action: ", argv[5]>>]
  /\ pc' = "report"
  /\ UNCHANGED <<argv, cur, pending, tried, sent, slept, stdout, exit_code>>
  /\ UNCHANGED ivars

\* the answer is a redirect status with a Location
IsRedirect(a) == a.kind = "http" /\ a.code \in HandledRedirects /\ a.loc # NoLocation

\* the redirects answered so far in the invocation
RECURSIVE RedirectsOf(_)
RedirectsOf(t) ==
  IF t = <<>> THEN 0 ELSE t[Len(t)].redirects + RedirectsOf(SubSeq(t, 1, Len(t) - 1))

\* what the next request can be answered with
AnswersNow ==
  {a \in Answers : IsRedirect(a) => RedirectsOf(tried) + pending.redirects < MaxRedirects}

\* the attempt `cur` has returned outcome o: run the cascade up to its next
\* request, its sleep, or its return
\* (f and a are the first and the last answer of the attempt, n the number
\* of requests sent, calls the number of calls of opener.open, reds the
\* number of redirects answered)
Finish(o, f, a, n, calls, reds) ==
  LET t == Append(tried, [name |-> cur, success |-> o.success, code |-> o.code,
                          msg |-> o.msg,
                          first |-> [kind |-> f.kind, code |-> f.code, loc |-> f.loc],
                          final |-> [kind |-> a.kind, code |-> a.code],
                          requests |-> n, calls |-> calls, redirects |-> reds])
      nxt == Cascade(argv[5], cur, t) IN
  /\ tried' = t
  /\ pending' = NoPending
  /\ CASE nxt.op = "request" ->
            /\ cur' = nxt.name
            /\ pc' = "request"
            /\ UNCHANGED result
       [] nxt.op = "sleep" ->
            /\ cur' = nxt.name
            /\ pc' = "sleep"
            /\ UNCHANGED result
       [] OTHER ->
            /\ cur' = "none"
            /\ pc' = "report"
            /\ result' = [success |-> nxt.success, code |-> nxt.code, msg |-> nxt.msg]

\* request req of the attempt `cur` is sent by call number `call` of
\* opener.open and answered a; make_request runs up to its next request or
\* its return
Exchange(req, call, e, a) ==
  LET record(step, f, n, reds) ==
        /\ sent' = Append(sent, req)
        /\ IF step.op = "send"
             THEN /\ pending' = [call |-> step.call, e |-> step.e, req |-> step.req,
                                 n |-> n, first |-> f, redirects |-> reds]
                  /\ pc' = IF step.call = call THEN "follow" ELSE "replay"
                  /\ UNCHANGED <<cur, tried, result>>
             ELSE Finish(step.r, f, a, n, step.calls, reds)
  IN record(make_request_step(AttemptOf(argv[5], cur, argv[2]), argv[3], argv[4], call, e,
                              req, a),
            IF pending.n = 0 THEN [kind |-> a.kind, code |-> a.code, loc |-> a.loc]
            ELSE pending.first,
            pending.n + 1,
            pending.redirects + (IF IsRedirect(a) THEN 1 ELSE 0))

\* the request of an attempt: Request() and the call of opener.open at line 53
\* (the URL of an attempt begins with https://, so Request() takes it, and a
\* request that is not sent is refused inside the call of opener.open)
OpenRequest ==
  /\ pc = "request"
  /\ LET open(att, err) ==
           IF err # NoError
             THEN /\ Finish(make_request_first(err), err, err, 0, 1, 0)
                  /\ UNCHANGED sent
           ELSE \E a \in AnswersNow :
                  Exchange(Request(att.url, argv[3], argv[4], att.method, att.data), 1,
                           NoError, a)
         attempt(att) == open(att, request_error(att.url))
     IN attempt(AttemptOf(argv[5], cur, argv[2]))
  /\ UNCHANGED <<argv, slept, stdout, exit_code>>
  /\ UNCHANGED ivars

\* the request replayed at the redirect's Location: the call of opener.open
\* at line 66
OpenReplay ==
  /\ pc = "replay"
  /\ \E a \in AnswersNow : Exchange(pending.req, 2, pending.e, a)
  /\ UNCHANGED <<argv, slept, stdout, exit_code>>
  /\ UNCHANGED ivars

\* the GET by which the opener follows a redirect, inside a call of
\* opener.open
FollowRedirect ==
  /\ pc = "follow"
  /\ \E a \in AnswersNow : Exchange(pending.req, pending.call, pending.e, a)
  /\ UNCHANGED <<argv, slept, stdout, exit_code>>
  /\ UNCHANGED ivars

\* time.sleep(5) between ForceOff and On
Sleep ==
  /\ pc = "sleep"
  /\ slept' = slept + SettleSeconds
  /\ pc' = "request"
  /\ UNCHANGED <<argv, cur, pending, tried, sent, result, stdout, exit_code>>
  /\ UNCHANGED ivars

\* print(json.dumps(result)); sys.exit(0 if success else 1)
Report ==
  /\ pc = "report"
  /\ stdout' = Append(stdout, ResultRecord(result))
  /\ exit_code' = ExitStatus(result.success)
  /\ pc' = "exit"
  /\ UNCHANGED <<argv, cur, pending, tried, sent, slept, result>>
  /\ UNCHANGED ivars

Next ==
  \/ Usage
  \/ Dispatch
  \/ UnknownAction
  \/ OpenRequest
  \/ OpenReplay
  \/ FollowRedirect
  \/ Sleep
  \/ Report

Spec == Init /\ [][Next]_vars

\* a request of the cascade is due: one of OpenRequest, OpenReplay and
\* FollowRedirect can be taken (a request can always be answered with
\* something other than a redirect) and taking it adds to sent or to tried
RequestDue == pc \in {"request", "replay", "follow"}

\* the interpreter runs the one thread of the program until it exits; every
\* opener.open returns or raises within its timeout (timeout=30): weak
\* fairness of every step, written for the three request steps with
\* RequestDue as their enabling condition
FairSpec ==
  /\ Spec
  /\ WF_vars(Usage)
  /\ WF_vars(Dispatch)
  /\ WF_vars(UnknownAction)
  /\ WF_vars(Sleep)
  /\ WF_vars(Report)
  /\ []<>(~RequestDue) \/ []<><<RequestDue>>_vars

(***************************************************************************)
(* maas_to_inventory.py: a call of convert_maas_to_inventory, from the     *)
(* loaded template to the localhost dict that is written out.              *)
(* A dict is a function on its keys; a missing key is a key outside the    *)
(* DOMAIN. power_type is a sequence of characters, so that `in` and        *)
(* lower() are computed; host names are sequences of tokens. The role, the *)
(* install disk and the ignored interfaces of a host entry are left out.   *)
(* localhost is inventory['all']['hosts']['localhost']; the other keys of  *)
(* the template are carried to the output untouched and are not tracked.   *)
(***************************************************************************)
\* most machines in one list of machines
MaxMachines == 2

\* dict.get(k, default)
Get(d, k, default) == IF k \in DOMAIN d THEN d[k] ELSE default

\* bool(d) of a dict, a list or None
Truthy(d) == DOMAIN d # {}

\* str.lower() on a sequence of characters
lower(str) == [i \in 1..Len(str) |-> LowerChar(str[i])]

\* part in str
substring(part, str) ==
  \E k \in 0..(Len(str) - Len(part)) : SubSeq(str, k + 1, k + Len(part)) = part

s_ipmi == <<"i", "p", "m", "i">>
s_virsh == <<"v", "i", "r", "s", "h">>
s_hmc == <<"h", "m", "c">>
s_ilo == <<"i", "l", "o">>
s_hpilo == <<"h", "p", "i", "l", "o">>
s_idrac == <<"i", "d", "r", "a", "c">>
s_drac == <<"d", "r", "a", "c">>
s_redfish == <<"r", "e", "d", "f", "i", "s", "h">>
s_manual == <<"m", "a", "n", "u", "a", "l">>

\* the if/elif chain of extract_oob_info
oob_type_of(power_type) ==
  IF substring(s_ipmi, power_type) THEN s_ipmi
  ELSE IF substring(s_virsh, power_type) THEN s_virsh
  ELSE IF substring(s_hmc, power_type) THEN s_hmc
  ELSE IF substring(s_ilo, lower(power_type)) \/ substring(s_hpilo, lower(power_type))
    THEN s_ilo
  ELSE IF substring(s_idrac, lower(power_type)) \/ substring(s_drac, lower(power_type))
    THEN s_idrac
  ELSE IF substring(s_redfish, lower(power_type)) THEN s_redfish
  ELSE IF power_type # <<>> THEN power_type
  ELSE s_manual

\* the key of oob_info filled from key p of power_parameters
OobKey(p) ==
  CASE p = "power_address" -> "oob_address"
    [] p = "power_user" -> "oob_username"
    [] OTHER -> "oob_password"

extract_oob_info(machine) ==
  LET power_type == Get(machine, "power_type", <<>>)
      power_params == Get(machine, "power_parameters", <<>>)
      present == DOMAIN power_params \cap {"power_address", "power_user", "power_pass"} IN
  [k \in {"oob_type"} \cup {OobKey(p) : p \in present} |->
     IF k = "oob_type" THEN oob_type_of(power_type)
     ELSE power_params[CHOOSE p \in present : OobKey(p) = k]]

extract_primary_mac(machine) ==
  LET boot_interface == Get(machine, "boot_interface", <<>>)
      interfaces == Get(machine, "interface_set", <<>>) IN
  IF Truthy(boot_interface) /\ "mac_address" \in DOMAIN boot_interface
    THEN boot_interface.mac_address
  ELSE IF interfaces # <<>> THEN Get(interfaces[1], "mac_address", "")
  ELSE ""

\* link.get('mode') == 'static' and link.get('ip_address')
StaticLink(link) == Get(link, "mode", "") = "static" /\ Get(link, "ip_address", "") # ""

\* the first static address among the links of the interfaces, every link of
\* an interface before the links of the next one; '' if none
FirstStatic(interfaces) ==
  LET links(i) == Get(interfaces[i], "links", <<>>)
      first(hits) ==
        CHOOSE x \in hits : \A y \in hits : x[1] < y[1] \/ (x[1] = y[1] /\ x[2] <= y[2])
      address(h) == links(h[1])[h[2]].ip_address
      pick(hits) == IF hits = {} THEN "" ELSE address(first(hits))
  IN pick({h \in UNION {{<<i, j>> : j \in 1..Len(links(i))} : i \in 1..Len(interfaces)} :
             StaticLink(links(h[1])[h[2]])})

extract_primary_ip(machine) ==
  LET boot_interface == Get(machine, "boot_interface", <<>>)
      own == IF Truthy(boot_interface) THEN FirstStatic(<<boot_interface>>) ELSE "" IN
  IF own # "" THEN own ELSE FirstStatic(Get(machine, "interface_set", <<>>))

extract_boot_interface_name(machine) ==
  LET boot_interface == Get(machine, "boot_interface", <<>>)
      interfaces == Get(machine, "interface_set", <<>>)
      named == {i \in 1..Len(interfaces) :
                  /\ Get(interfaces[i], "type", "") = "physical"
                  /\ Get(interfaces[i], "name", "") # ""} IN
  IF Truthy(boot_interface) /\ "name" \in DOMAIN boot_interface THEN boot_interface.name
  ELSE IF named # {} THEN interfaces[CHOOSE i \in named : \A j \in named : i <= j].name
  ELSE "eth0"

domain == <<"pxe", ".", "local">>

\* the name of the host entry: the hostname, with the domain when it has no dot
full_hostname(machine) ==
  LET hostname == Get(machine, "hostname", Get(machine, "fqdn", <<>>)) IN
  IF \A i \in 1..Len(hostname) : hostname[i] # "." THEN hostname \o <<".">> \o domain
  ELSE hostname

\* variant of StatusKept: the status is not looked at
StatusKept_AnyStatus(machine) == TRUE

\* the status filter of the loop
StatusKept(machine) ==
  Get(machine, "status_name", "") \in {"Deployed", "Ready", "Allocated", "Deploying"}

\* host_entry after host_entry.update(oob_info)
host_entry(machine) ==
  extract_oob_info(machine)
    @@ [name |-> full_hostname(machine), mac |-> extract_primary_mac(machine),
        ip |-> extract_primary_ip(machine)]

\* Counter(names).most_common(1)[0][0]: the most frequent, the earliest of them
most_common(names) ==
  LET count(x) == Cardinality({i \in 1..Len(names) : names[i] = x})
      first(x) == CHOOSE i \in 1..Len(names) :
                    names[i] = x /\ \A j \in 1..Len(names) : names[j] = x => i <= j
      range == {names[i] : i \in 1..Len(names)} IN
  CHOOSE x \in range :
    \A y \in range : count(x) > count(y) \/ (count(x) = count(y) /\ first(x) <= first(y))

(* the machine records tried *)
BootNic ==
  [name |-> "eno1", type |-> "physical", mac_address |-> "52:54:00:00:00:01",
   links |-> <<[mode |-> "static", ip_address |-> "10.0.0.11"]>>]
SecondNic ==
  [name |-> "eno2", type |-> "physical", mac_address |-> "52:54:00:00:00:02",
   links |-> <<>>]
FallbackNic ==
  [name |-> "eth1", type |-> "physical", mac_address |-> "52:54:00:00:00:03",
   links |-> <<[mode |-> "auto"], [mode |-> "static", ip_address |-> "10.0.0.13"]>>]
DhcpNic ==
  [name |-> "eno1", type |-> "physical", mac_address |-> "52:54:00:00:00:04",
   links |-> <<[mode |-> "dhcp"]>>]
LateStaticNic ==
  [name |-> "eno3", type |-> "physical", mac_address |-> "52:54:00:00:00:05",
   links |-> <<[mode |-> "auto"], [mode |-> "dhcp"],
               [mode |-> "static", ip_address |-> "10.0.0.14"]>>]

NetConfigs ==
  {[boot_interface |-> BootNic, interface_set |-> <<BootNic, SecondNic>>],
   [interface_set |-> <<FallbackNic>>],
   [interface_set |-> <<LateStaticNic, BootNic>>],
   [boot_interface |-> DhcpNic, interface_set |-> <<DhcpNic>>],
   [hostname |-> <<"bare", ".", "lab">>]}

PowerTypes ==
  {s_ipmi, <<"I", "P", "M", "I">>, s_virsh, s_hmc, <<"i", "L", "O">>, s_idrac,
   <<"D", "R", "A", "C">>, <<"R", "E", "D", "F", "I", "S", "H">>, <<"a", "m", "t">>, <<>>}

FullParams ==
  [power_address |-> "10.0.0.5", power_user |-> "admin", power_pass |-> "secret"]

PowerConfigs ==
  {[power_type |-> t, power_parameters |-> FullParams] : t \in PowerTypes}
    \cup {[power_type |-> t] : t \in {s_redfish, <<"a", "m", "t">>}}
    \cup {[power_parameters |-> FullParams],
          [power_type |-> s_virsh, power_parameters |-> [power_address |-> "qemu"]],
          [power_type |-> s_manual, power_parameters |-> <<>>]}

GoodNet == [boot_interface |-> BootNic, interface_set |-> <<BootNic, SecondNic>>]

MachineRecords ==
  {p @@ GoodNet @@ [hostname |-> <<"node">>, status_name |-> "Deployed"] :
     p \in PowerConfigs}
    \cup {n @@ [hostname |-> <<"node">>, status_name |-> "Ready"]
             @@ [power_type |-> s_ipmi, power_parameters |-> FullParams] : n \in NetConfigs}
    \cup {GoodNet @@ [hostname |-> <<"node">>, status_name |-> st]
             @@ [power_type |-> s_ipmi, power_parameters |-> FullParams] :
             st \in {"Allocated", "Deploying", "New"}}

RedfishIdle ==
  /\ argv = <<>>
  /\ pc = "idle"
  /\ cur = "none"
  /\ pending = NoPending
  /\ tried = <<>>
  /\ sent = <<>>
  /\ slept = 0
  /\ result = NoResult
  /\ stdout = <<>>
  /\ exit_code = -1

redfish == <<argv, pc, cur, pending, tried, sent, slept, result, stdout, exit_code>>

\* the localhost dict made when the template has none
default_localhost ==
  [ansible_connection |-> "local", dhcp_interface |-> "eth0", domain |-> domain]

\* a host entry left in a template by an earlier run
StaleHost == [name |-> <<"old", ".", "lab">>, mac |-> "52:54:00:00:00:99", ip |-> "10.0.0.99"]

(* the templates tried: what yaml.safe_load(f) or {} gives, {} also standing
   for no template file and for a file that is not found *)
Templates ==
  {<<>>,
   [all |-> [children |-> <<>>]],
   [all |-> [hosts |-> [localhost |->
      [ansible_connection |-> "local", network_primary_interface |-> "bond0",
       pxe_hosts |-> <<StaleHost>>, network_gateway |-> "192.168.0.1",
       longhorn_mount_path |-> "/data"]]]]}

\* inventory['all']['hosts']['localhost'] once the structure is initialised
initial_localhost(inventory) ==
  Get(Get(Get(inventory, "all", <<>>), "hosts", <<>>), "localhost", default_localhost)

(* the answers of get_subnets tried *)
SubnetLists ==
  {<<>>,
   <<[name |-> "bare"]>>,
   <<[cidr |-> "192.168.1.0/24", gateway_ip |-> "192.168.1.1", managed |-> FALSE],
     [cidr |-> "10.0.0.0/16", gateway_ip |-> "10.0.0.1", dns_servers |-> <<"10.0.0.2">>,
      managed |-> TRUE]>>,
   <<[cidr |-> "10.0.0.0/x", allow_proxy |-> TRUE]>>}

\* the first subnet that is managed or allows the proxy, else the first
\* subnet, else {}
find_pxe_subnet(subnets) ==
  LET dhcp == {i \in 1..Len(subnets) :
                 Get(subnets[i], "managed", FALSE) \/ Get(subnets[i], "allow_proxy", FALSE)}
  IN IF dhcp # {} THEN subnets[CHOOSE i \in dhcp : \A j \in dhcp : i <= j]
     ELSE IF subnets # <<>> THEN subnets[1]
     ELSE <<>>

\* the digit a character stands for
DigitValue(c) == CHOOSE d \in 0..9 : Digit(d) = c

\* int(s) of a text that IsInt takes
RECURSIVE digits_value(_, _)
digits_value(s, acc) ==
  IF s = "" THEN acc
  ELSE IF Head(s) = "_" THEN digits_value(Tail(s), acc)
  ELSE digits_value(Tail(s), 10 * acc + DigitValue(Head(s)))

int(s) ==
  LET signed(t) ==
        IF Char(t, 1) = "-" THEN 0 - digits_value(Tail(t), 0)
        ELSE IF Char(t, 1) = "+" THEN digits_value(Tail(t), 0)
        ELSE digits_value(t, 0)
  IN signed(strip(s))

\* cidr.split('/')[-1]
prefix_text(cidr) == split(cidr, "/")[Len(split(cidr, "/"))]

\* whether int(cidr.split('/')[-1]) raises ValueError
netmask_raises(subnet) ==
  LET raises(cidr) == find(cidr, "/", 1) # 0 /\ ~IsInt(prefix_text(cidr))
  IN Truthy(subnet) /\ raises(Get(subnet, "cidr", ""))

extract_network_settings(subnet) ==
  LET netmask(cidr) == IF find(cidr, "/", 1) # 0 THEN int(prefix_text(cidr)) ELSE 24
      nameservers(dns_servers) ==
        IF dns_servers # <<>> THEN dns_servers ELSE <<"8.8.8.8", "1.1.1.1">>
  IN IF Truthy(subnet)
       THEN [network_gateway |-> Get(subnet, "gateway_ip", ""),
             network_netmask |-> netmask(Get(subnet, "cidr", "")),
             network_nameservers |-> nameservers(Get(subnet, "dns_servers", <<>>))]
     ELSE <<>>

\* localhost after the update with the settings of the subnet
with_network_settings(host, pxe_subnet) ==
  [network_mtu |-> 1500, network_ignored_interfaces |-> <<>>]
    @@ extract_network_settings(pxe_subnet)
    @@ host
    @@ [longhorn_mount_path |-> "/var/lib/longhorn",
        talos_extensions |-> <<"siderolabs/iscsi-tools", "siderolabs/util-linux-tools">>]

\* the template is loaded and the structure initialised
InvInit ==
  /\ RedfishIdle
  /\ machines = <<>>
  /\ mi = 1
  /\ pxe_hosts = <<>>
  /\ boot_interfaces = <<>>
  /\ \E inventory \in Templates : localhost = initial_localhost(inventory)
  /\ ipc = "subnets"

\* subnets = maas_client.get_subnets() and the network settings of localhost;
\* a prefix length that is no number ends the call with a ValueError
FetchSubnets ==
  /\ ipc = "subnets"
  /\ \E subnets \in SubnetLists :
       LET settle(pxe_subnet) ==
             IF ~Truthy(pxe_subnet) THEN localhost' = localhost /\ ipc' = "machines"
             ELSE IF netmask_raises(pxe_subnet) THEN localhost' = localhost /\ ipc' = "raised"
             ELSE /\ localhost' = with_network_settings(localhost, pxe_subnet)
                  /\ ipc' = "machines"
       IN settle(find_pxe_subnet(subnets))
  /\ UNCHANGED <<machines, mi, pxe_hosts, boot_interfaces, redfish>>

\* machines = maas_client.get_machines(); pxe_hosts = []; boot_interfaces = []
FetchMachines ==
  /\ ipc = "machines"
  /\ \E n \in 0..MaxMachines : machines' \in [1..n -> MachineRecords]
  /\ mi' = 1
  /\ pxe_hosts' = <<>>
  /\ boot_interfaces' = <<>>
  /\ ipc' = "loop"
  /\ UNCHANGED <<localhost, redfish>>

\* a machine whose status is not one of the four: continue
SkipStatus ==
  /\ ipc = "loop"
  /\ mi <= Len(machines)
  /\ ~StatusKept(machines[mi])
  /\ mi' = mi + 1
  /\ UNCHANGED <<machines, pxe_hosts, boot_interfaces, localhost, ipc, redfish>>

\* if not mac: continue
SkipNoMac ==
  /\ ipc = "loop"
  /\ mi <= Len(machines)
  /\ StatusKept(machines[mi])
  /\ extract_primary_mac(machines[mi]) = ""
  /\ mi' = mi + 1
  /\ UNCHANGED <<machines, pxe_hosts, boot_interfaces, localhost, ipc, redfish>>

\* if not ip: continue
SkipNoIp ==
  /\ ipc = "loop"
  /\ mi <= Len(machines)
  /\ StatusKept(machines[mi])
  /\ extract_primary_mac(machines[mi]) # ""
  /\ extract_primary_ip(machines[mi]) = ""
  /\ mi' = mi + 1
  /\ UNCHANGED <<machines, pxe_hosts, boot_interfaces, localhost, ipc, redfish>>

\* the rest of the loop body: build the entry and append it
AddHost ==
  /\ ipc = "loop"
  /\ mi <= Len(machines)
  /\ StatusKept(machines[mi])
  /\ extract_primary_mac(machines[mi]) # ""
  /\ extract_primary_ip(machines[mi]) # ""
  /\ pxe_hosts' = Append(pxe_hosts, host_entry(machines[mi]))
  /\ boot_interfaces' = Append(boot_interfaces, extract_boot_interface_name(machines[mi]))
  /\ mi' = mi + 1
  /\ UNCHANGED <<machines, localhost, ipc, redfish>>

\* after the loop: network_primary_interface and pxe_hosts of localhost
WriteInventory ==
  /\ ipc = "loop"
  /\ mi > Len(machines)
  /\ localhost' =
       IF boot_interfaces # <<>>
         THEN [network_primary_interface |-> most_common(boot_interfaces),
               pxe_hosts |-> pxe_hosts] @@ localhost
       ELSE [pxe_hosts |-> pxe_hosts] @@ localhost
  /\ ipc' = "done"
  /\ UNCHANGED <<machines, mi, pxe_hosts, boot_interfaces, redfish>>

InvNext ==
  \/ FetchSubnets
  \/ FetchMachines
  \/ SkipStatus
  \/ SkipNoMac
  \/ SkipNoIp
  \/ AddHost
  \/ WriteInventory

InvSpec == InvInit /\ [][InvNext]_vars

(***************************************************************************)
(* Properties                                                              *)
(***************************************************************************)
RECURSIVE Requests(_)
\* the number of requests sent by the attempts of t
Requests(t) == IF t = <<>> THEN 0 ELSE t[Len(t)].requests + Requests(SubSeq(t, 1, Len(t) - 1))

\* the action token of a well-formed invocation
Action == IF Len(argv) = 5 THEN argv[5] ELSE "none"
Dispatched == Len(argv) = 5 /\ Action \in {"set_boot", "reset"}
Names == {tried[i].name : i \in 1..Len(tried)}
Returned == pc \in {"report", "exit"}
InFlight == pc \in {"request", "replay", "follow"}

\* C1: once an attempt has succeeded nothing more is sent and the invocation
\* reports success, except that a successful OEM ForceOff is followed by the
\* OEM On attempt and by nothing else; no attempt that succeeded is sent again.
C1_StopsAtFirstSuccess ==
  Dispatched =>
    \A i \in 1..Len(tried) :
      tried[i].success =>
        /\ IF tried[i].name = "off"
             THEN /\ \A j \in (i + 1)..Len(tried) : j = i + 1 /\ tried[j].name = "on2"
                  /\ Len(tried) = i => pc \in {"sleep", "request", "replay", "follow"} /\ cur = "on2"
                  /\ InFlight =>
                       AttemptOf(Action, cur, argv[2]).data = ResetData("On")
             ELSE /\ i = Len(tried)
                  /\ Returned
                  /\ cur = "none"
                  /\ Len(sent) = Requests(tried)
                  /\ pending = NoPending
                  /\ result.success
                  /\ pc = "exit" => ~stdout[1].failed /\ exit_code = 0
        /\ \A j \in (i + 1)..Len(tried) :
             AttemptOf(Action, tried[j].name, argv[2])
               # AttemptOf(Action, tried[i].name, argv[2])
        /\ InFlight =>
             AttemptOf(Action, cur, argv[2]) # AttemptOf(Action, tried[i].name, argv[2])

C1_Witness ==
  /\ pc = "exit"
  /\ Len(tried) = 5
  /\ tried[4].success
  /\ tried[5].success

\* C2: when the first attempt fails with a status other than 400, it is the
\* only attempt and the result is a failure with that attempt's status and
\* message.
C2_FirstNon400IsFinal ==
  (Dispatched /\ Len(tried) >= 1 /\ ~tried[1].success /\ tried[1].code # 400) =>
    /\ Len(tried) = 1
    /\ Returned
    /\ cur = "none"
    /\ Len(sent) = tried[1].requests
    /\ result = [success |-> FALSE, code |-> tried[1].code, msg |-> tried[1].msg]
    /\ pc = "exit" =>
         /\ stdout[1].failed
         /\ stdout[1].status_code = tried[1].code
         /\ stdout[1].msg = tried[1].msg

C2_Witness ==
  /\ pc = "exit"
  /\ Dispatched
  /\ Action = "reset"
  /\ Len(tried) = 1
  /\ tried[1].code = TransportFailure

\* C3 (as claimed): in the reset cascade every attempt that fails with a
\* status other than 400 ends the cascade, with that attempt's message.
C3_AnyNon400StopsReset ==
  (Dispatched /\ Action = "reset") =>
    \A i \in 1..Len(tried) :
      (~tried[i].success /\ tried[i].code # 400) =>
        /\ i = Len(tried)
        /\ Returned
        /\ result.msg = tried[i].msg

\* C4 (as claimed): ForceOff is sent only if the standard reset, the OEM
\* reset and the OEM On all failed with status 400.
C4_ForceOffOnlyAfter400s ==
  (Dispatched /\ Action = "reset" /\ ("off" \in Names \/ (InFlight /\ cur = "off"))) =>
    \A i \in 1..Len(tried) :
      tried[i].name \in {"std", "oem", "on"} => ~tried[i].success /\ tried[i].code = 400

\* C5: when ForceOff succeeds and the following On fails, the record is a
\* failure with changed = false, the exit code is 1 and the message is the
\* dedicated text; no other failure of the reset cascade starts with that text.
C5_PartialPowerFailure ==
  (Action = "reset" /\ Returned /\ ~result.success) =>
    LET partial == /\ Len(tried) = 5
                   /\ tried[4].name = "off" /\ tried[4].success
                   /\ tried[5].name = "on2" /\ ~tried[5].success IN
    /\ partial <=> Head(result.msg) = PartialText
    /\ partial =>
         /\ result.msg = <<PartialText>> \o tried[5].msg
         /\ pc = "exit" =>
              /\ stdout[1].failed
              /\ ~stdout[1].changed
              /\ stdout[1].msg = result.msg
              /\ exit_code = 1

C5_Witness ==
  /\ pc = "exit"
  /\ Len(tried) = 5
  /\ tried[4].success
  /\ ~tried[5].success
  /\ tried[5].requests = 2

\* the token sequence `part` occurs in m
Contains(m, part) ==
  \E k \in 0..(Len(m) - Len(part)) : SubSeq(m, k + 1, k + Len(part)) = part

\* every attempt of the cascade was sent and failed
AllFailed ==
  /\ Returned
  /\ \A i \in 1..Len(tried) : ~tried[i].success
  /\ \/ Action = "set_boot" /\ Len(tried) = 2
     \/ Action = "reset" /\ Len(tried) = 4

\* C6: when all attempts failed, the message contains each
\* attempt's status code and each attempt's message.
C6_AggregateHasStatusAndMessage ==
  AllFailed =>
    \A i \in 1..Len(tried) :
      /\ Contains(result.msg, tried[i].msg)
      /\ Contains(result.msg, <<CodeStr(tried[i].code)>>)

\* the attempt the cascade turns to when attempt `name` is rejected
NextVariant(action, name) ==
  CASE name = "std" -> "oem"
    [] action = "reset" /\ name = "oem" -> "on"
    [] action = "reset" /\ name = "on" -> "off"
    [] OTHER -> "none"

\* C7 (as claimed): an attempt whose last answer is HTTP 400 is followed by
\* the next variant of the cascade, when there is one, whether the 400
\* answered the original request or the replayed one.
C7_Every400Advances ==
  Dispatched =>
    \A i \in 1..Len(tried) :
      (tried[i].final = [kind |-> "http", code |-> 400]
         /\ NextVariant(Action, tried[i].name) # "none") =>
        \/ Len(tried) > i /\ tried[i + 1].name = NextVariant(Action, tried[i].name)
        \/ Len(tried) = i /\ InFlight /\ cur = NextVariant(Action, tried[i].name)

\* the action succeeded: the last attempt made was answered with success
ActionSucceeded == Len(tried) > 0 /\ tried[Len(tried)].success

\* C8: at exit the code is 0 exactly when the action succeeded and 1
\* otherwise, failed is the negation of that, and in the record of a
\* recognised or unrecognised action changed equals it, so that failed and
\* changed always differ.
C8_ExitCodeAndFlags ==
  pc = "exit" =>
    /\ Len(stdout) = 1
    /\ exit_code = (IF ActionSucceeded THEN 0 ELSE 1)
    /\ stdout[1].failed = ~ActionSucceeded
    /\ Len(argv) = 5 =>
         /\ stdout[1].changed = ActionSucceeded
         /\ stdout[1].failed # stdout[1].changed

C8_Witness ==
  /\ pc = "exit"
  /\ Action = "set_boot"
  /\ Len(tried) = 2
  /\ ActionSucceeded
  /\ exit_code = 0

RecordFields == {"failed", "changed", "status_code", "msg"}

\* C9 (as claimed): every invocation that has exited wrote exactly one
\* record, which has the four fields failed, changed, status_code and msg.
C9_OneRecordWithFourFields ==
  pc = "exit" => Len(stdout) = 1 /\ DOMAIN stdout[1] = RecordFields

\* C10: an invocation with an action token other than set_boot and reset
\* sends nothing, and its record is a failure with changed = false and exit
\* code 1.
C10_UnknownActionNoRequest ==
  (Len(argv) = 5 /\ argv[5] \notin {"set_boot", "reset"}) =>
    /\ sent = <<>>
    /\ tried = <<>>
    /\ pc \in {"main", "report", "exit"}
    /\ pc = "exit" =>
         /\ Len(stdout) = 1
         /\ stdout[1].failed
         /\ ~stdout[1].changed
         /\ exit_code = 1

C10_Witness ==
  /\ pc = "exit"
  /\ Len(argv) = 5
  /\ argv[5] = "frobnicate"
  /\ stdout[1].msg = <<"Unknown action: ", "frobnicate">>

\* C11: an invocation with a number of positional arguments other than
\* four sends nothing and dispatches no action; its record has failed = true
\* and its exit code is 1.
C11_UsageErrorNoRequest ==
  Len(argv) # 5 =>
    /\ sent = <<>>
    /\ tried = <<>>
    /\ cur = "none"
    /\ result = NoResult
    /\ pc \in {"main", "exit"}
    /\ pc = "exit" =>
         /\ Len(stdout) = 1
         /\ stdout[1].failed
         /\ exit_code = 1

C11_Witness ==
  /\ pc = "exit"
  /\ Len(argv) = 6
  /\ argv[5] = "reset"
  /\ stdout = <<UsageRecord>>

\* the answer was a redirect status with a Location
ReplayableRedirect(f) ==
  f.kind = "http" /\ f.code \in {301, 302, 307, 308} /\ f.loc # NoLocation

\* C12 (as claimed): an attempt sends one request, or two when the first was
\* answered 301/302/307/308 with a Location, and never a third; an attempt
\* whose second request is answered with a redirect ends as a failure.
C12_AtMostOneReplay ==
  /\ \A i \in 1..Len(tried) :
       /\ tried[i].requests <= 2
       /\ tried[i].requests = 2 => ReplayableRedirect(tried[i].first)
       /\ (tried[i].requests = 2 /\ tried[i].final.kind = "http") => ~tried[i].success
  /\ Len(sent) = Requests(tried) + pending.n
  /\ pending.n <= 1
  /\ pending.n = 1 => ReplayableRedirect(pending.first)

\* the index in sent of the first request of attempt i
FirstRequest(i) == Requests(SubSeq(tried, 1, i - 1)) + 1

\* the Authorization header of the invocation's credentials
BasicAuth == [scheme |-> "Basic", b64 |-> <<argv[3], ":", argv[4]>>]

\* the Location names a scheme and a host
Absolute(loc) == startswith(loc, "http://") \/ startswith(loc, "https://")

\* C13 (as claimed): when the first request of an attempt is answered
\* 301/302/307/308 with a Location, the request sent next has the method,
\* body and Authorization of the original, and its URL is the Location when
\* absolute, else scheme and host of the original URL followed by the
\* Location; when it succeeds the attempt is a success with its status; every
\* request sent carries the Basic Authorization of the invocation's username
\* and password.
C13_ReplayKeepsRequest ==
  /\ \A k \in 1..Len(sent) : sent[k].Authorization = BasicAuth
  /\ \A i \in 1..Len(tried) :
       (ReplayableRedirect(tried[i].first) /\ tried[i].requests >= 2) =>
         LET orig == sent[FirstRequest(i)]
             replay == sent[FirstRequest(i) + 1]
             loc == tried[i].first.loc[1] IN
         /\ replay.method = orig.method
         /\ replay.data = orig.data
         /\ replay.Authorization = orig.Authorization
         /\ replay.url = (IF Absolute(loc) THEN loc ELSE "https://" \o argv[2] \o loc)
         /\ (tried[i].requests = 2 /\ tried[i].final.kind = "ok") =>
              tried[i].success /\ tried[i].code = tried[i].final.code

\* C14 (as claimed): an attempt whose last request ended without an HTTP
\* response, the original or the replayed one, fails with status -1.
C14_NoResponseIsMinusOne ==
  \A i \in 1..Len(tried) :
    tried[i].final.kind \in {"url", "exc"} =>
      ~tried[i].success /\ tried[i].code = TransportFailure

\* the message of a success of attempt `name`
SuccessText(action, name) ==
  CASE action = "set_boot" /\ name = "std" -> "Boot device set successfully"
    [] action = "set_boot" /\ name = "oem" -> "Boot device set successfully (Dell OEM)"
    [] action = "reset" /\ name = "std" -> "Server reset triggered"
    [] action = "reset" /\ name = "oem" -> "Server reset triggered (Dell OEM)"
    [] action = "reset" /\ name = "on" -> "Server powered on (Dell OEM)"
    [] action = "reset" /\ name = "on2" -> "Server reset triggered (Dell OEM ForceOff+On)"
    [] OTHER -> "none"

\* the attempts a cascade can succeed with
SuccessNames(action) ==
  IF action = "set_boot" THEN {"std", "oem"} ELSE {"std", "oem", "on", "on2"}

\* C15: on success the status code is the HTTP status answered to the
\* attempt that succeeded, and the message is the one of that variant, which
\* differs from the message of every other variant of the action.
C15_SuccessNamesVariant ==
  (Dispatched /\ Returned /\ result.success) =>
    LET last == tried[Len(tried)] IN
    /\ last.success
    /\ last.final.kind = "ok"
    /\ last.name \in SuccessNames(Action)
    /\ result.code = last.final.code
    /\ result.msg = <<SuccessText(Action, last.name)>>
    /\ \A n \in SuccessNames(Action) \ {last.name} :
         result.msg # <<SuccessText(Action, n)>>
    /\ pc = "exit" =>
         /\ stdout[1] = [failed |-> FALSE, changed |-> TRUE,
                         status_code |-> last.final.code, msg |-> result.msg]
         /\ exit_code = 0

C15_Witness ==
  /\ pc = "exit"
  /\ Action = "set_boot"
  /\ Len(tried) = 2
  /\ tried[1].code = 400
  /\ stdout[1] = [failed |-> FALSE, changed |-> TRUE, status_code |-> 200,
                  msg |-> <<"Boot device set successfully (Dell OEM)">>]

\* the numbers of attempts and of requests stay within the cascade's bounds
WithinBounds ==
  /\ \A i \in 1..Len(tried) : tried[i].requests <= 2
  /\ Action = "set_boot" => Len(tried) <= 2 /\ Len(sent) <= 4
  /\ Action = "reset" => Len(tried) <= 5 /\ Len(sent) <= 10
  /\ pc = "exit" => Len(stdout) = 1

\* C16 (as claimed): whatever the requests are answered, an invocation of
\* set_boot or reset makes at most 2 or 5 attempts of at most 2 requests
\* each, and then writes its record and exits.
C16_Terminates ==
  /\ []WithinBounds
  /\ Dispatched ~> (pc = "exit" /\ Len(stdout) = 1 /\ exit_code \in {0, 1})

\* the fixed order of a cascade: method, path and body of each attempt
Order(action) ==
  IF action = "set_boot"
    THEN <<[name |-> "std", method |-> "PATCH", path |-> "/redfish/v1/Systems/1",
            data |-> BootData],
           [name |-> "oem", method |-> "PATCH",
            path |-> "/redfish/v1/Systems/System.Embedded.1", data |-> BootData]>>
    ELSE <<[name |-> "std", method |-> "POST",
            path |-> "/redfish/v1/Systems/1/Actions/ComputerSystem.Reset",
            data |-> [ResetType |-> "ForceRestart"]],
           [name |-> "oem", method |-> "POST",
            path |-> "/redfish/v1/Systems/System.Embedded.1/Actions/ComputerSystem.Reset",
            data |-> [ResetType |-> "ForceRestart"]],
           [name |-> "on", method |-> "POST",
            path |-> "/redfish/v1/Systems/System.Embedded.1/Actions/ComputerSystem.Reset",
            data |-> [ResetType |-> "On"]],
           [name |-> "off", method |-> "POST",
            path |-> "/redfish/v1/Systems/System.Embedded.1/Actions/ComputerSystem.Reset",
            data |-> [ResetType |-> "ForceOff"]],
           [name |-> "on2", method |-> "POST",
            path |-> "/redfish/v1/Systems/System.Embedded.1/Actions/ComputerSystem.Reset",
            data |-> [ResetType |-> "On"]]>>

\* the request at index k of sent is the first request of entry o of the order
IsAttempt(k, o) ==
  /\ sent[k].method = o.method
  /\ sent[k].url = "https://" \o argv[2] \o o.path
  /\ sent[k].data = o.data

\* C20: the attempts made are, in order, the first attempts of the action's
\* fixed cascade, none skipped, moved or repeated, and an OEM attempt is made
\* only after the standard attempt has failed.
C20_FixedOrder ==
  Dispatched =>
    LET order == Order(Action)
        started == Len(tried) + (IF InFlight THEN 1 ELSE 0) IN
    /\ started <= Len(order)
    /\ \A i \in 1..Len(tried) :
         /\ tried[i].name = order[i].name
         /\ tried[i].requests >= 1 => IsAttempt(FirstRequest(i), order[i])
    /\ InFlight =>
         /\ cur = order[started].name
         /\ pc \in {"replay", "follow"} => IsAttempt(Requests(tried) + 1, order[started])
    /\ started >= 2 => ~tried[1].success

C20_Witness ==
  /\ pc = "replay"
  /\ Action = "reset"
  /\ cur = "on2"
  /\ Len(tried) = 4
  /\ tried[2].requests = 2

OobTypes == {s_ipmi, s_virsh, s_hmc, s_ilo, s_idrac, s_redfish, s_manual}

\* C18: the oob_type of every host entry is one of ipmi, virsh, hmc, ilo,
\* idrac, redfish and manual, whatever the power_type of the machine
\* (empty, missing and unrecognised strings included)
C18_OobTypeEnumerated ==
  \A i \in 1..Len(pxe_hosts) : pxe_hosts[i].oob_type \in OobTypes

OobFields == {"oob_type", "oob_address", "oob_username", "oob_password"}

\* C19: every host entry of pxe_hosts, for a machine that passed the status,
\* MAC and IP filters, has the four fields oob_type, oob_address,
\* oob_username and oob_password
C19_AllFourOobFields ==
  \A i \in 1..Len(pxe_hosts) : OobFields \subseteq DOMAIN pxe_hosts[i]

\* the ForceOff attempt has returned, with success or not
OffReturned(ok) ==
  /\ Len(tried) >= 4
  /\ tried[4].name = "off"
  /\ tried[4].success = ok

\* the request of the second "On" attempt is in the log
On2Sent == Len(tried) >= 4 /\ Len(sent) > Requests(SubSeq(tried, 1, 4))

\* the wait and the second "On" in every state of a reset
SettleOrder ==
  /\ slept \in {0, SettleSeconds}
  /\ pc = "sleep" => slept = 0 /\ Len(tried) = 4 /\ OffReturned(TRUE) /\ ~On2Sent
  /\ slept = SettleSeconds => Action = "reset" /\ OffReturned(TRUE)
  /\ On2Sent => slept = SettleSeconds
  /\ (\E i \in 1..Len(tried) : tried[i].name = "on2") => On2Sent
  /\ cur = "on2" => OffReturned(TRUE)
  /\ OffReturned(FALSE) => slept = 0 /\ ~On2Sent /\ Len(tried) = 4 /\ Returned

\* C21: in a reset the wait of 5 seconds happens at most once and only right
\* after a successful ForceOff, the second "On" is sent only after the wait,
\* a failed ForceOff is followed by neither, and after a successful ForceOff
\* the second "On" is eventually sent.
C21_SettleThenOn ==
  /\ []SettleOrder
  /\ [][slept' # slept => pc = "sleep" /\ tried' = tried /\ sent' = sent]_vars
  /\ OffReturned(TRUE) ~> On2Sent

C21_Witness ==
  /\ pc = "exit"
  /\ OffReturned(TRUE)
  /\ slept = SettleSeconds
  /\ On2Sent
  /\ Len(tried) = 5

\* C22: when an invocation of set_boot or reset ends with a failure, the
\* status_code of its record is the status of the last attempt it sent (the
\* ForceOff attempt when all stages of reset failed, the second "On" attempt
\* for the partial power failure).
C22_FailureCodeIsLastAttempt ==
  (Dispatched /\ pc = "exit" /\ exit_code = 1) =>
    stdout[1].status_code = tried[Len(tried)].code

\* the host a request is addressed to: the part of its URL between the
\* scheme and the path
HostOf(req) == splithost(req.url)

\* C23: every request that carries the Basic Authorization of the
\* invocation's username and password is addressed to the host given as the
\* management address, also when a redirect names an absolute Location.
C23_CredentialsOnlyToTarget ==
  \A k \in 1..Len(sent) :
    sent[k].Authorization = BasicAuth => HostOf(sent[k]) = argv[2]

\* the attempts whose last request was answered with a response
AnsweredOk == {i \in 1..Len(tried) : tried[i].final.kind = "ok"}

\* the record is the one of the partial power failure
PartialRecord(rec) ==
  /\ Action = "reset"
  /\ Len(tried) = 5
  /\ AnsweredOk = {4}
  /\ rec.msg[1] = PartialText

\* C24: a record with changed=false means that no request of the invocation
\* was answered with success, except for the partial power failure (ForceOff
\* succeeded, "On" failed), which has its own message; a record with
\* changed=true means that the last request sent was answered with success.
C24_ChangedMeansLastAnswerOk ==
  (pc = "exit" /\ "changed" \in DOMAIN stdout[1]) =>
    LET rec == stdout[1] IN
    /\ ~rec.changed => AnsweredOk = {} \/ PartialRecord(rec)
    /\ rec.changed => /\ sent # <<>>
                      /\ Len(tried) \in AnsweredOk

C24_Witness ==
  /\ pc = "exit"
  /\ Dispatched
  /\ PartialRecord(stdout[1])
  /\ ~stdout[1].changed
  /\ tried[4].requests = 2
  /\ tried[5].final.kind = "url"

\* the machine has one of the four statuses, a MAC address and an IP address
Passes(machine) ==
  /\ "status_name" \in DOMAIN machine
  /\ machine.status_name \in {"Deployed", "Ready", "Allocated", "Deploying"}
  /\ extract_primary_mac(machine) # ""
  /\ extract_primary_ip(machine) # ""

\* the machines the loop has gone through that pass, in the order of the input
PassedSoFar == SelectSeq(SubSeq(machines, 1, mi - 1), Passes)

\* the entries and the votes so far are those of the machines that passed,
\* and what is written is these entries and the most common vote
EntriesOfPassed ==
  /\ Len(pxe_hosts) = Len(PassedSoFar)
  /\ Len(boot_interfaces) = Len(PassedSoFar)
  /\ \A i \in 1..Len(PassedSoFar) :
       /\ pxe_hosts[i].mac = extract_primary_mac(PassedSoFar[i])
       /\ pxe_hosts[i].ip = extract_primary_ip(PassedSoFar[i])
       /\ pxe_hosts[i] = host_entry(PassedSoFar[i])
       /\ boot_interfaces[i] = extract_boot_interface_name(PassedSoFar[i])
  /\ ipc = "done" =>
       /\ mi = Len(machines) + 1
       /\ localhost.pxe_hosts = pxe_hosts
       /\ PassedSoFar # <<>> =>
            localhost.network_primary_interface = most_common(boot_interfaces)

\* network_primary_interface of a localhost dict, <<>> when it has none
PrimaryInterface(host) ==
  IF "network_primary_interface" \in DOMAIN host
    THEN <<host.network_primary_interface>>
  ELSE <<>>

\* C25: the entries of pxe_hosts are, in the order of the input, one for each
\* machine that has one of the statuses Deployed, Ready, Allocated, Deploying
\* and a non-empty MAC and IP, and none for any other machine; the votes for
\* network_primary_interface are the boot interfaces of these machines only:
\* it is written as the most common of them, and left as it was when no
\* machine passed.
C25_EntriesAreThePassingMachines ==
  /\ []EntriesOfPassed
  /\ [][ipc = "loop" /\ ipc' = "done" /\ PassedSoFar = <<>>
          => PrimaryInterface(localhost') = PrimaryInterface(localhost)]_vars

C25_Witness ==
  /\ ipc = "done"
  /\ Len(machines) = 2
  /\ ~Passes(machines[1])
  /\ Passes(machines[2])
  /\ Len(pxe_hosts) = 1
  /\ localhost.network_primary_interface = "eth1"

====
